---- MODULE Spec2Model ----
(***************************************************************************)
(* Model of snapshots/lvm/lvm.go: the command executor runCommand and the  *)
(* volume lifecycle operations built on it.                                *)
(*                                                                         *)
(* lvm.go carries two definitions of the package.  Lines 1-209 (rev = 1)   *)
(* give every lifecycle operation a `lock sync.Mutex` parameter, passed by *)
(* value, and a runCommand that takes no lock.  Lines 211-408 (rev = 2)    *)
(* declare the package variable `mutex` and lock it inside runCommand.     *)
(* Both are modelled; rev is fixed by Init.                                *)
(*                                                                         *)
(* Text (command names, arguments, tool output, error strings) is a        *)
(* sequence of string pieces; Go's string concatenation is \o.             *)
(***************************************************************************)
EXTENDS Integers, Sequences, FiniteSets, TLC

\* ------------------------------------------------------------------ bounds
\* Failed attempts the tools may produce, over both callers, when two
\* callers run concurrently.
MaxConcFails == 1
\* Failed attempts the tools may produce during a multi-operation program.
MaxScenarioFails == 1

\* Failed attempts the tools may produce during one operation of a single
\* caller (enough for one invocation to exhaust its retries).
MaxSeqFails == 10

\* --------------------------------------------------------- program constants
retries == 10

Callers == {"c1", "c2"}

Nil == <<>>                       \* the nil error
NoArg == "-"                      \* a parameter the operation does not have

\* caller-supplied names
vg0 == "vg0"
lv1 == "lv1"
pool0 == "pool0"
drive0 == "/dev/sdb"
size0 == "1G"
Parents == {"", "lv0"}
FsTypes == {"ext4", "xfs", "btrfs"}

\* ------------------------------------------------------------ text helpers
WhiteSpace == {" ", "\n", "\t"}

RECURSIVE TrimLeft(_)
TrimLeft(s) ==
    IF s /= <<>> /\ Head(s) \in WhiteSpace THEN TrimLeft(Tail(s)) ELSE s

RECURSIVE TrimRight(_)
TrimRight(s) ==
    IF s /= <<>> /\ s[Len(s)] \in WhiteSpace
    THEN TrimRight(SubSeq(s, 1, Len(s) - 1)) ELSE s

\* strings.TrimSpace
TrimSpace(s) == TrimRight(TrimLeft(s))

\* strings.Contains
Contains(s, sub) ==
    \E i \in 1..(Len(s) - Len(sub) + 1) : SubSeq(s, i, i + Len(sub) - 1) = sub

NotMounted == <<"not", " ", "mounted">>

\* filepath.Join: drops a trailing separator of each element, joins with "/"
Clean(e) == IF Len(e) > 1 /\ e[Len(e)] = "/" THEN SubSeq(e, 1, Len(e) - 1) ELSE e
Join(a, b, c) == Clean(a) \o <<"/">> \o Clean(b) \o <<"/">> \o Clean(c)

\* errors.Wrap(err, msg): Error() is msg + ": " + err.Error()
Wrap(e, msg) == <<msg, ": ">> \o e

ExitStatus(n) == <<"exit status ", ToString(n)>>

\* ----------------------------------------------------------- operations
Op(n, p, f, a) == [name |-> n, parent |-> p, fstype |-> f, activate |-> a]

Simple == {"removeLVMVolume", "createVolumeGroup", "createLogicalThinPool",
           "deleteVolumeGroup", "checkVG", "checkLV"}
Toggles == {"toggleactivateLV", "toggleactivateVG"}

\* the calls a caller can make of each definition of the package
Ops(r) ==
    {Op(n, NoArg, NoArg, FALSE) : n \in Simple}
    \cup {Op(n, NoArg, NoArg, a) : n \in Toggles, a \in BOOLEAN}
    \cup (IF r = 1
          THEN {Op("createLVMVolume", p, NoArg, FALSE) : p \in Parents}
               \cup {Op("formatVolume", NoArg, f, FALSE) : f \in FsTypes}
          ELSE {Op("createLVMVolume", p, f, FALSE) : p \in Parents, f \in FsTypes})

\* lines 52-183: every operation but formatVolume locks its `lock` parameter
TakesLock(r, op) == r = 1 /\ op.name /= "formatVolume"

\* the flags are appended after the device path
MkfsArgsFlagsLast(fstype) ==
    << Join(<<"/dev", "/">>, <<vg0>>, <<lv1>>) >>
    \o (CASE fstype = "ext4" ->
            << <<"-E">>, <<"nodiscard,lazy_itable_init=0,lazy_journal_init=0">> >>
         [] fstype = "xfs" -> << <<"-K">> >>
         [] OTHER -> << >>)

MkfsArgs(fstype) ==
    (CASE fstype = "ext4" ->
            << <<"-E">>, <<"nodiscard,lazy_itable_init=0,lazy_journal_init=0">> >>
       [] fstype = "xfs" -> << <<"-K">> >>
       [] OTHER -> << >>)
    \o << Join(<<"/dev", "/">>, <<vg0>>, <<lv1>>) >>

Mkfs(fstype) == [cmd |-> <<"mkfs.", fstype>>, args |-> MkfsArgs(fstype)]

LvChange(activate) ==
    [cmd |-> <<"lvchange">>,
     args |-> << <<"-K">>, <<vg0, "/", lv1>>, <<"-a">>,
                 IF activate THEN <<"y">> ELSE <<"n">> >>]

LvCreate(parent) ==
    [cmd |-> <<"lvcreate">>,
     args |-> IF parent /= ""
              THEN << <<"--name">>, <<lv1>>, <<"--snapshot">>, <<vg0, "/", parent>> >>
              ELSE << <<"--virtualsize">>, <<size0>>, <<"--name">>, <<lv1>>,
                      <<"--thin">>, <<vg0, "/", pool0>> >>]

Unmount(r) ==
    IF r = 1
    THEN [cmd |-> <<"umount">>,
          args |-> << <<"--lazy">>, <<"--force">>, <<"--all-targets">>,
                      Join(<<"/dev">>, <<vg0>>, <<lv1>>) >>]
    ELSE [cmd |-> <<"blkdeactivate">>,
          args |-> << <<"-u">>, Join(<<"/dev">>, <<vg0>>, <<lv1>>) >>]

LvRemove == [cmd |-> <<"lvremove">>, args |-> << <<"-y">>, <<vg0, "/", lv1>> >>]

\* lvremove is issued before the unmount
RemoveCommandSwapped(r, s) == IF s = 1 THEN LvRemove ELSE Unmount(r)

\* the commands of removeLVMVolume, in the order it issues them
RemoveCommand(r, s) == IF s = 1 THEN Unmount(r) ELSE LvRemove

\* createLVMVolume formats before it activates
CommandFormatFirst(r, op, s) ==
    IF op.name = "createLVMVolume" /\ s > 1
    THEN (IF s = 2 THEN Mkfs(op.fstype) ELSE LvChange(TRUE))
    ELSE IF op.name = "createVolumeGroup"
    THEN [cmd |-> <<"vgcreate">>, args |-> << <<vg0>>, <<drive0>> >>]
    ELSE IF op.name = "createLogicalThinPool"
    THEN [cmd |-> <<"lvcreate">>,
          args |-> << <<"--thinpool">>, <<pool0>>, <<"--extents">>,
                      <<"90%FREE">>, <<vg0>> >>]
    ELSE IF op.name = "createLVMVolume" THEN LvCreate(op.parent)
    ELSE [cmd |-> <<"lvs">>, args |-> << >>]

\* the command the operation hands to runCommand at its step-th call
Command(r, op, s) ==
    CASE op.name = "formatVolume" -> Mkfs(op.fstype)
      [] op.name = "createLVMVolume" ->
            (CASE s = 1 -> LvCreate(op.parent)
               [] s = 2 -> LvChange(TRUE)
               [] OTHER -> Mkfs(op.fstype))
      [] op.name = "removeLVMVolume" -> RemoveCommand(r, s)
      [] op.name = "createVolumeGroup" ->
            [cmd |-> <<"vgcreate">>, args |-> << <<vg0>>, <<drive0>> >>]
      [] op.name = "createLogicalThinPool" ->
            [cmd |-> <<"lvcreate">>,
             args |-> << <<"--thinpool">>, <<pool0>>, <<"--extents">>,
                         <<"90%FREE">>, <<vg0>> >>]
      [] op.name = "deleteVolumeGroup" ->
            [cmd |-> <<"vgremove">>, args |-> << <<"-y">>, <<vg0>> >>]
      [] op.name = "checkVG" ->
            [cmd |-> <<"vgs">>,
             args |-> << <<vg0>>, <<"--options">>, <<"vg_name">>, <<"--no-headings">> >>]
      [] op.name = "checkLV" ->
            [cmd |-> <<"lvs">>,
             args |-> << <<vg0, "/", lv1>>, <<"--options">>, <<"lv_name">>,
                         <<"--no-heading">> >>]
      [] op.name = "toggleactivateLV" -> LvChange(op.activate)
      [] OTHER ->
            [cmd |-> <<"vgchange">>,
             args |-> << <<"-K">>, <<vg0>>, <<"-a">>,
                         IF op.activate THEN <<"y">> ELSE <<"n">> >>]

Return(o, e) == [ret |-> TRUE, out |-> o, err |-> e]
Proceed == [ret |-> FALSE, out |-> <<>>, err |-> Nil]

\* the parent test before formatting is dropped
createLVMVolumeAlwaysFormat(r, op, s, o, e) ==
    IF s = 1
    THEN IF e /= Nil THEN Return(o, Wrap(e, "Unable to create volume"))
         ELSE IF r = 1 THEN Return(o, e) ELSE Proceed
    ELSE IF s = 2
    THEN IF e /= Nil THEN Return(o, Wrap(e, "Unable to activate thin volume"))
         ELSE Proceed
    ELSE Return(o, e)

\* the create step's error is not checked before activation
createLVMVolumeNoCreateCheck(r, op, s, o, e) ==
    IF s = 1
    THEN IF r = 1
         THEN (IF e /= Nil THEN Return(o, Wrap(e, "Unable to create volume"))
               ELSE Return(o, e))
         ELSE Proceed
    ELSE IF s = 2
    THEN IF e /= Nil THEN Return(o, Wrap(e, "Unable to activate thin volume"))
         ELSE IF op.parent = "" THEN Proceed ELSE Return(o, e)
    ELSE Return(o, e)

\* the activation failure is wrapped with the create step's message
createLVMVolumeSameMessage(r, op, s, o, e) ==
    IF s = 1
    THEN IF e /= Nil THEN Return(o, Wrap(e, "Unable to create volume"))
         ELSE IF r = 1 THEN Return(o, e) ELSE Proceed
    ELSE IF s = 2
    THEN IF e /= Nil THEN Return(o, Wrap(e, "Unable to create volume"))
         ELSE IF op.parent = "" THEN Proceed ELSE Return(o, e)
    ELSE Return(o, e)

\* the operation goes on to format after a failed activation
createLVMVolumeKeepsGoing(r, op, s, o, e) ==
    IF s = 1
    THEN IF e /= Nil THEN Return(o, Wrap(e, "Unable to create volume"))
         ELSE IF r = 1 THEN Return(o, e) ELSE Proceed
    ELSE IF s = 2
    THEN IF op.parent = "" THEN Proceed
         ELSE IF e /= Nil THEN Return(o, Wrap(e, "Unable to activate thin volume"))
         ELSE Return(o, e)
    ELSE Return(o, e)

\* what the operation does with the (output, err) its step-th runCommand
\* returned: return to its caller, or go on to the next command
createLVMVolume(r, op, s, o, e) ==
    IF s = 1
    THEN IF e /= Nil THEN Return(o, Wrap(e, "Unable to create volume"))
         ELSE IF r = 1 THEN Return(o, e) ELSE Proceed
    ELSE IF s = 2
    THEN IF e /= Nil THEN Return(o, Wrap(e, "Unable to activate thin volume"))
         ELSE IF op.parent = "" THEN Proceed ELSE Return(o, e)
    ELSE Return(o, e)

\* every unmount failure is tolerated
removeLVMVolumeTolerateAll(r, op, s, o, e) ==
    IF s = 1 THEN Proceed ELSE Return(o, e)

removeLVMVolume(r, op, s, o, e) ==
    IF s = 1
    THEN IF e /= Nil /\ (r = 2 \/ ~Contains(o, NotMounted))
         THEN Return(o, Wrap(e, "Unable to unmount volume"))
         ELSE Proceed
    ELSE Return(o, e)

\* exit status 5 is not remapped
createLogicalThinPoolNoRemap(r, op, s, o, e) == Return(o, e)

createLogicalThinPool(r, op, s, o, e) ==
    IF e /= Nil /\ e = ExitStatus(5) THEN Return(o, Nil) ELSE Return(o, e)

Continue(r, op, s, o, e) ==
    CASE op.name = "createLVMVolume" -> createLVMVolume(r, op, s, o, e)
      [] op.name = "removeLVMVolume" -> removeLVMVolume(r, op, s, o, e)
      [] op.name = "createLogicalThinPool" -> createLogicalThinPool(r, op, s, o, e)
      [] OTHER -> Return(o, e)

\* ------------------------------------------------------- the tools' answers
\* what c.CombinedOutput() can hand back on the n-th spawn of an invocation;
\* the output names the attempt that produced it
Attempt(n) == "#" \o ToString(n)
Outcomes(n) ==
    {[output |-> <<" ", Attempt(n), " ", "ok", "\n">>, err |-> Nil]}
    \cup {[output |-> o, err |-> e] :
            o \in {<<"\n", Attempt(n), ":", " ", "not", " ", "mounted", "\n">>,
                   <<Attempt(n), ":", " ", "failed", " ">>},
            e \in {ExitStatus(1), ExitStatus(5)}}

\* the loop test off by one
LoopCondInclusive(r) == r <= retries

\* for ret < retries (lines 192, 391)
LoopCond(r) == r < retries

\* the output of an earlier attempt is kept
CaptureStaleOutput(old, new) ==
    [output |-> IF old.output /= <<>> THEN old.output ELSE new.output,
     err |-> new.err]

\* the error of an earlier failed attempt is kept next to the new output
CaptureStaleErr(old, new) ==
    [output |-> new.output,
     err |-> IF old.err /= Nil /\ new.err /= Nil THEN old.err ELSE new.err]

\* output, err = c.CombinedOutput() (lines 200, 399): both are overwritten
Capture(old, new) == [output |-> new.output, err |-> new.err]

\* --------------------------------------------------------------- programs
ScenarioA == << Op("createVolumeGroup", NoArg, NoArg, FALSE),
                Op("createLogicalThinPool", NoArg, NoArg, FALSE),
                Op("createLVMVolume", "", "ext4", FALSE) >>

\* rev 1 has no fstype parameter on createLVMVolume
ScenarioA1 == << Op("createVolumeGroup", NoArg, NoArg, FALSE),
                 Op("createLogicalThinPool", NoArg, NoArg, FALSE),
                 Op("createLVMVolume", "", NoArg, FALSE) >>

\* the operations in the order the source declares them
OpNames == <<"formatVolume", "createLVMVolume", "removeLVMVolume",
             "createVolumeGroup", "createLogicalThinPool", "deleteVolumeGroup",
             "checkVG", "checkLV", "toggleactivateLV", "toggleactivateVG">>
NameRank(n) == CHOOSE i \in DOMAIN OpNames : OpNames[i] = n

Single(r) == {<<op>> : op \in Ops(r)}
Programs(r) == Single(r) \cup {IF r = 1 THEN ScenarioA1 ELSE ScenarioA}

VARIABLES
    rev,      \* which definition of the package is built
    prog,     \* prog[c]: the operations caller c invokes, in order
    ip,       \* ip[c]: index in prog[c] of the current/next operation
    pc,       \* pc[c]: where caller c is
    step,     \* step[c]: which runCommand call of the operation
    lock,     \* lock[c]: the operation's `lock` parameter is locked (rev 1)
    mutex,    \* holder of the package variable `mutex` (rev 2), or "free"
    ret,      \* runCommand's ret
    output,   \* runCommand's output
    err,      \* runCommand's err
    out,      \* the operation's out/output, as runCommand returned it
    operr,    \* the operation's err, as runCommand returned it
    res,      \* res[c]: what the last completed operation returned
    spawns,   \* spawns[c]: processes started by the current runCommand call
    calls,    \* calls[c]: the runCommand calls the current operation completed
    log,      \* log[c]: every command caller c spawned, in order
    fails,    \* fails[c]: failed attempts caller c has seen
    proc      \* proc[c]: what caller c's last terminated process produced

vars == <<rev, prog, ip, pc, step, lock, mutex, ret, output, err, out, operr,
          res, spawns, calls, log, fails, proc>>

Free == "free"
NoRes == [out |-> <<>>, err |-> Nil, op |-> Op("none", NoArg, NoArg, FALSE),
          calls |-> <<>>]
NoProc == [output |-> <<>>, err |-> Nil, first |-> Nil]

Concurrent == \A c \in Callers : prog[c] /= <<>>

FailCap(c) ==
    IF Concurrent THEN MaxConcFails
    ELSE IF Len(prog[c]) > 1 THEN MaxScenarioFails
    ELSE MaxSeqFails

\* the failed attempts counted against FailCap(c)
FailsSeen(c) == IF Concurrent THEN fails["c1"] + fails["c2"] ELSE fails[c]

CurOp(c) == prog[c][ip[c]]

Init ==
    /\ rev \in {1, 2}
    /\ prog \in [Callers -> Programs(rev) \cup {<<>>}]
    /\ prog["c1"] /= <<>>
    \* two concurrent callers run one operation each; the callers are
    \* interchangeable, so each pair of operation names is listed once
    /\ prog["c2"] /= <<>> =>
          /\ Len(prog["c1"]) = 1 /\ Len(prog["c2"]) = 1
          /\ NameRank(prog["c1"][1].name) <= NameRank(prog["c2"][1].name)
    /\ ip = [c \in Callers |-> 1]
    /\ pc = [c \in Callers |-> "ready"]
    /\ step = [c \in Callers |-> 0]
    /\ lock = [c \in Callers |-> FALSE]
    /\ mutex = Free
    /\ ret = [c \in Callers |-> 0]
    /\ output = [c \in Callers |-> <<>>]
    /\ err = [c \in Callers |-> Nil]
    /\ out = [c \in Callers |-> <<>>]
    /\ operr = [c \in Callers |-> Nil]
    /\ res = [c \in Callers |-> NoRes]
    /\ spawns = [c \in Callers |-> 0]
    /\ calls = [c \in Callers |-> <<>>]
    /\ log = [c \in Callers |-> <<>>]
    /\ fails = [c \in Callers |-> 0]
    /\ proc = [c \in Callers |-> NoProc]

\* the deferred unlock is missing
ReleasedNever(r, m) == m

\* defer mutex.Unlock() of runCommand (line 387); rev 1 has none
Released(r, m) == IF r = 2 THEN Free ELSE m

\* entry of runCommand: rev 2 first takes the package mutex (line 386)
RcEntry == IF rev = 2 THEN "rc_lock" ELSE "rc_loop"

\* The caller invokes its next operation.  In rev 1 the operation receives
\* a copy of the caller's (unlocked) sync.Mutex as its `lock` parameter.
Call(c) ==
    /\ pc[c] = "ready"
    /\ ip[c] <= Len(prog[c])
    /\ pc' = [pc EXCEPT ![c] = IF TakesLock(rev, CurOp(c)) THEN "op_lock" ELSE RcEntry]
    /\ step' = [step EXCEPT ![c] = 1]
    /\ lock' = [lock EXCEPT ![c] = FALSE]
    /\ calls' = [calls EXCEPT ![c] = <<>>]
    /\ out' = [out EXCEPT ![c] = <<>>]
    /\ operr' = [operr EXCEPT ![c] = Nil]
    /\ UNCHANGED <<rev, prog, ip, mutex, ret, output, err, res, spawns, log,
                   fails, proc>>

\* lock.Lock() on the parameter (rev 1), then the first runCommand call
OpLock(c) ==
    /\ pc[c] = "op_lock"
    /\ ~lock[c]
    /\ lock' = [lock EXCEPT ![c] = TRUE]
    /\ pc' = [pc EXCEPT ![c] = RcEntry]
    /\ UNCHANGED <<rev, prog, ip, step, mutex, ret, output, err, out, operr,
                   res, spawns, calls, log, fails, proc>>

\* mutex.Lock() in runCommand (rev 2)
RcLock(c) ==
    /\ pc[c] = "rc_lock"
    /\ mutex = Free
    /\ mutex' = c
    /\ pc' = [pc EXCEPT ![c] = "rc_loop"]
    /\ UNCHANGED <<rev, prog, ip, step, lock, ret, output, err, out, operr,
                   res, spawns, calls, log, fails, proc>>

\* loop head with ret < retries: exec.Command and start of CombinedOutput
Spawn(c) ==
    /\ pc[c] = "rc_loop"
    /\ LoopCond(ret[c])
    /\ pc' = [pc EXCEPT ![c] = "rc_run"]
    /\ spawns' = [spawns EXCEPT ![c] = @ + 1]
    /\ log' = [log EXCEPT ![c] = Append(@, Command(rev, CurOp(c), step[c]))]
    /\ UNCHANGED <<rev, prog, ip, step, lock, mutex, ret, output, err, out,
                   operr, res, calls, fails, proc>>

\* loop head with ret = retries: the loop ends
LoopExit(c) ==
    /\ pc[c] = "rc_loop"
    /\ ~LoopCond(ret[c])
    /\ pc' = [pc EXCEPT ![c] = "rc_ret"]
    /\ UNCHANGED <<rev, prog, ip, step, lock, mutex, ret, output, err, out,
                   operr, res, spawns, calls, log, fails, proc>>

\* the process ends; CombinedOutput returns; break on success, else ret++
Exit(c) ==
    /\ pc[c] = "rc_run"
    /\ \E oc \in Outcomes(spawns[c]) :
        /\ oc.err /= Nil => FailsSeen(c) < FailCap(c)
        /\ proc' = [proc EXCEPT ![c] =
                        [output |-> oc.output, err |-> oc.err,
                         first |-> IF spawns[c] = 1 THEN oc.err ELSE @.first]]
        /\ LET got == Capture([output |-> output[c], err |-> err[c]], oc) IN
            /\ output' = [output EXCEPT ![c] = got.output]
            /\ err' = [err EXCEPT ![c] = got.err]
        /\ IF err'[c] = Nil
           THEN /\ pc' = [pc EXCEPT ![c] = "rc_ret"]
                /\ UNCHANGED <<ret, fails>>
           ELSE /\ pc' = [pc EXCEPT ![c] = "rc_sleep"]
                /\ ret' = [ret EXCEPT ![c] = @ + 1]
                /\ fails' = [fails EXCEPT ![c] = @ + 1]
    /\ UNCHANGED <<rev, prog, ip, step, lock, mutex, out, operr, res, spawns,
                   calls, log>>

\* time.Sleep is over
Sleep(c) ==
    /\ pc[c] = "rc_sleep"
    /\ pc' = [pc EXCEPT ![c] = "rc_loop"]
    /\ UNCHANGED <<rev, prog, ip, step, lock, mutex, ret, output, err, out,
                   operr, res, spawns, calls, log, fails, proc>>

\* return strings.TrimSpace(string(output)), err; deferred mutex.Unlock()
RcReturn(c) ==
    /\ pc[c] = "rc_ret"
    /\ out' = [out EXCEPT ![c] = TrimSpace(output[c])]
    /\ operr' = [operr EXCEPT ![c] = err[c]]
    /\ calls' = [calls EXCEPT ![c] =
                    Append(@, [cmd |-> Command(rev, CurOp(c), step[c]).cmd,
                               args |-> Command(rev, CurOp(c), step[c]).args,
                               spawns |-> spawns[c],
                               failed |-> ret[c],
                               out |-> TrimSpace(output[c]),
                               err |-> err[c],
                               last |-> [output |-> proc[c].output,
                                         err |-> proc[c].err]])]
    /\ mutex' = Released(rev, mutex)
    /\ ret' = [ret EXCEPT ![c] = 0]
    /\ output' = [output EXCEPT ![c] = <<>>]
    /\ err' = [err EXCEPT ![c] = Nil]
    /\ spawns' = [spawns EXCEPT ![c] = 0]
    /\ pc' = [pc EXCEPT ![c] = "after"]
    /\ proc' = [proc EXCEPT ![c] = NoProc]
    /\ UNCHANGED <<rev, prog, ip, step, lock, res, log, fails>>

\* the operation goes on to its next runCommand call
NextStep(c) ==
    /\ pc[c] = "after"
    /\ ~Continue(rev, CurOp(c), step[c], out[c], operr[c]).ret
    /\ step' = [step EXCEPT ![c] = @ + 1]
    /\ pc' = [pc EXCEPT ![c] = RcEntry]
    /\ UNCHANGED <<rev, prog, ip, lock, mutex, ret, output, err, out, operr,
                   res, spawns, calls, log, fails, proc>>

\* the operation returns; deferred lock.Unlock() (rev 1)
OpReturn(c) ==
    /\ pc[c] = "after"
    /\ LET k == Continue(rev, CurOp(c), step[c], out[c], operr[c]) IN
        /\ k.ret
        /\ res' = [res EXCEPT ![c] = [out |-> k.out, err |-> k.err, op |-> CurOp(c),
                                      calls |-> calls[c]]]
    /\ lock' = [lock EXCEPT ![c] = FALSE]
    /\ ip' = [ip EXCEPT ![c] = @ + 1]
    /\ pc' = [pc EXCEPT ![c] = "ready"]
    /\ step' = [step EXCEPT ![c] = 0]
    /\ out' = [out EXCEPT ![c] = <<>>]
    /\ operr' = [operr EXCEPT ![c] = Nil]
    /\ UNCHANGED <<rev, prog, mutex, ret, output, err, spawns, calls, log, fails,
                   proc>>

Next ==
    \E c \in Callers :
        \/ Call(c)
        \/ OpLock(c)
        \/ RcLock(c)
        \/ Spawn(c)
        \/ LoopExit(c)
        \/ Exit(c)
        \/ Sleep(c)
        \/ RcReturn(c)
        \/ NextStep(c)
        \/ OpReturn(c)

Spec == Init /\ [][Next]_vars

TypeOK ==
    /\ rev \in {1, 2}
    /\ mutex \in Callers \cup {Free}
    /\ \A c \in Callers : ret[c] \in 0..retries

\* ------------------------------------------------------------- properties
InRunCommand(c) == pc[c] \in {"rc_loop", "rc_run", "rc_sleep", "rc_ret"}
InFlight == {c \in Callers : pc[c] = "rc_run"}
IsMkfs(cmd) == cmd[1] = "mkfs."
Records(c) == {calls[c][i] : i \in DOMAIN calls[c]}
Returned(c, name) == res[c].op.name = name

\* C1: in every reachable state at most one external command process
\* spawned by runCommand is executing, whatever operations the concurrent
\* callers invoke.
AtMostOneInFlight == Cardinality(InFlight) <= 1

\* C2: every caller that is running a command holds the one process-wide
\* token `mutex`, and no caller ever locks any other instance (a copy).
SingleToken ==
    \A c \in Callers :
        /\ ~lock[c]
        /\ InRunCommand(c) => mutex = c

\* C3: a runCommand invocation whose process failed on every attempt has
\* spawned it exactly `retries` (10) times when it returns, and returns a
\* non-nil error; no invocation spawns more than 10 processes.
RetryCeiling ==
    \A c \in Callers :
        /\ spawns[c] <= retries
        /\ pc[c] = "rc_ret" /\ proc[c].err /= Nil
              => spawns[c] = retries /\ err[c] /= Nil
        /\ \A k \in Records(c) : k.last.err /= Nil
              => k.spawns = retries /\ k.err /= Nil
RetryCeilingWitness ==
    \E c \in Callers : \E k \in Records(c) :
        k.last.err /= Nil /\ k.spawns = retries /\ k.failed = retries

\* C4: an invocation whose process fails on attempts 1..k (k < 10) and
\* succeeds on attempt k+1 spawns exactly k+1 processes, spawns nothing after
\* the success, and returns a nil error with the (trimmed) output of attempt
\* k+1.
RetrySuccess ==
    \A c \in Callers :
        /\ pc[c] \in {"rc_loop", "rc_run", "rc_sleep"} /\ proc[c] /= NoProc
              => proc[c].err /= Nil
        /\ \A k \in Records(c) : k.last.err = Nil =>
              /\ k.err = Nil
              /\ k.failed < retries
              /\ k.spawns = k.failed + 1
              /\ k.out = TrimSpace(k.last.output)
              /\ Contains(k.out, <<Attempt(k.spawns)>>)
RetrySuccessWitness ==
    \E c \in Callers : \E k \in Records(c) :
        k.last.err = Nil /\ k.err = Nil /\ k.failed = retries - 1

\* C5 as stated: when all 10 attempts fail the returned output and error
\* are those of the 10th attempt, unchanged.
ExhaustedUnchanged ==
    \A c \in Callers : \A k \in Records(c) :
        k.spawns = retries /\ k.last.err /= Nil
            => k.out = k.last.output /\ k.err = k.last.err

\* C5 amended: when all 10 attempts fail the returned error is that of the
\* 10th attempt, unchanged, and the returned output is the output of the
\* 10th attempt with its surrounding white space trimmed.
ExhaustedTrimmed ==
    \A c \in Callers : \A k \in Records(c) :
        k.spawns = retries /\ k.last.err /= Nil =>
            /\ k.err = k.last.err
            /\ k.out = TrimSpace(k.last.output)
            /\ Contains(k.out, <<Attempt(retries)>>)
ExhaustedWitness ==
    \E c \in Callers : \E k \in Records(c) :
        /\ k.spawns = retries
        /\ k.last.err = ExitStatus(1)
        /\ k.out /= k.last.output
        /\ fails[c] = retries

\* C6: createLogicalThinPool returns a nil error when its lvcreate ended in
\* the error "exit status 5", and returns the error itself for any other
\* failure.
PoolRemap ==
    \A c \in Callers : Returned(c, "createLogicalThinPool") =>
        LET k == res[c].calls[1] IN
        /\ Len(res[c].calls) = 1
        /\ k.cmd = <<"lvcreate">>
        /\ res[c].out = k.out
        /\ k.err = ExitStatus(5) => res[c].err = Nil
        /\ k.err /= ExitStatus(5) => res[c].err = k.err
PoolRemapWitness ==
    \E c \in Callers :
        /\ Returned(c, "createLogicalThinPool")
        /\ res[c].calls[1].err = ExitStatus(5)
        /\ res[c].calls[1].spawns = retries
        /\ res[c].err = Nil

\* C7: in removeLVMVolume a failed unmount/deactivate step whose output
\* contains "not mounted" is tolerated (lvremove runs and gives the result);
\* a failed unmount step with any other output returns an error and lvremove
\* is never invoked.
UnmountTolerance ==
    \A c \in Callers : Returned(c, "removeLVMVolume") =>
        LET u == res[c].calls[1] IN
        /\ u.err /= Nil /\ Contains(u.out, NotMounted) =>
              /\ Len(res[c].calls) = 2
              /\ res[c].calls[2].cmd = <<"lvremove">>
              /\ res[c].out = res[c].calls[2].out
              /\ res[c].err = res[c].calls[2].err
        /\ u.err /= Nil /\ ~Contains(u.out, NotMounted) =>
              /\ Len(res[c].calls) = 1
              /\ res[c].err /= Nil

\* the commands the current operation of c has spawned so far
Spawned(c) ==
    {k.cmd : k \in Records(c)}
    \cup (IF InRunCommand(c) /\ spawns[c] > 0
          THEN {Command(rev, CurOp(c), step[c]).cmd} ELSE {})
Busy(c) == pc[c] \notin {"ready"}

\* C8: createLVMVolume with a non-empty parent never spawns mkfs; with an
\* empty parent it spawns mkfs.<fstype> once the create step and the
\* activation step have both succeeded, and never before both have.
FormatOnlyFresh ==
    \A c \in Callers :
        /\ Busy(c) /\ CurOp(c).name = "createLVMVolume" =>
              /\ CurOp(c).parent /= "" => \A cmd \in Spawned(c) : ~IsMkfs(cmd)
              /\ (\E cmd \in Spawned(c) : IsMkfs(cmd)) =>
                    /\ Len(calls[c]) >= 2
                    /\ calls[c][1].cmd = <<"lvcreate">> /\ calls[c][1].err = Nil
                    /\ calls[c][2].cmd = <<"lvchange">> /\ calls[c][2].err = Nil
        /\ Returned(c, "createLVMVolume") =>
              LET ks == res[c].calls IN
              /\ res[c].op.parent /= "" => \A i \in DOMAIN ks : ~IsMkfs(ks[i].cmd)
              /\ (/\ res[c].op.parent = ""
                  /\ Len(ks) >= 2
                  /\ ks[1].err = Nil
                  /\ ks[2].cmd = <<"lvchange">> /\ ks[2].err = Nil)
                 => /\ Len(ks) = 3
                    /\ ks[3].cmd = <<"mkfs.", res[c].op.fstype>>
                    /\ ks[3].spawns >= 1
FormatOnlyFreshWitness ==
    \E c \in Callers :
        /\ Returned(c, "createLVMVolume")
        /\ res[c].op.parent = ""
        /\ Len(res[c].calls) = 3
        /\ res[c].calls[3].cmd = <<"mkfs.", "xfs">>

\* C9: when the lvcreate of createLVMVolume fails (after its retries) the
\* operation returns that error wrapped with "Unable to create volume" and
\* has invoked neither lvchange nor mkfs.
CreateFailureStops ==
    \A c \in Callers :
        /\ Busy(c) /\ CurOp(c).name = "createLVMVolume" /\ step[c] >= 2
              => calls[c][1].err = Nil
        /\ Returned(c, "createLVMVolume") /\ res[c].calls[1].err /= Nil =>
              /\ res[c].err = Wrap(res[c].calls[1].err, "Unable to create volume")
              /\ res[c].out = res[c].calls[1].out
              /\ Len(res[c].calls) = 1
              /\ res[c].calls[1].cmd = <<"lvcreate">>
CreateFailureStopsWitness ==
    \E c \in Callers :
        /\ rev = 2
        /\ Returned(c, "createLVMVolume")
        /\ res[c].calls[1].err /= Nil
        /\ res[c].calls[1].spawns = retries
        /\ res[c].err = Wrap(ExitStatus(1), "Unable to create volume")

ScenarioALog ==
    << Command(2, ScenarioA[1], 1),
       Command(2, ScenarioA[2], 1),
       LvCreate(""),
       LvChange(TRUE),
       Mkfs("ext4") >>

\* C10: a single caller that runs createVolumeGroup, createLogicalThinPool
\* and createLVMVolume (no parent, ext4), every command succeeding on its
\* first attempt, has spawned exactly vgcreate, lvcreate --thinpool,
\* lvcreate --thin, lvchange -a y, mkfs.ext4, once each, in that order.
ScenarioAOrder ==
    \A c \in Callers :
        prog[c] = ScenarioA /\ fails[c] = 0 =>
            /\ \E n \in 0..Len(ScenarioALog) : log[c] = SubSeq(ScenarioALog, 1, n)
            /\ ip[c] > Len(ScenarioA) =>
                  /\ log[c] = ScenarioALog
                  /\ [i \in 1..5 |-> log[c][i].cmd] =
                        << <<"vgcreate">>, <<"lvcreate">>, <<"lvcreate">>,
                           <<"lvchange">>, <<"mkfs.", "ext4">> >>
                  /\ <<"--thinpool">> = log[c][2].args[1]
                  /\ <<"--thin">> = log[c][3].args[5]
                  /\ log[c][4].args[4] = <<"y">>
ScenarioAOrderWitness ==
    \E c \in Callers :
        /\ prog[c] = ScenarioA
        /\ fails[c] = 0
        /\ ip[c] > Len(ScenarioA)
        /\ res[c].err = Nil
        /\ Len(log[c]) = 5
DevicePath == <<"/dev", "/", "vg0", "/", "lv1">>
IsUnmount(k) ==
    /\ k.cmd \in {<<"umount">>, <<"blkdeactivate">>}
    /\ k.args[Len(k.args)] = DevicePath
IsActivate(k) ==
    /\ k.cmd = <<"lvchange">>
    /\ k.args = << <<"-K">>, <<"vg0", "/", "lv1">>, <<"-a">>, <<"y">> >>

\* a failure the operation is allowed to swallow
Expected(op, i, k) ==
    \/ op.name = "createLogicalThinPool" /\ k.err = <<"exit status ", "5">>
    \/ op.name = "removeLVMVolume" /\ i = 1 /\ Contains(k.out, NotMounted)

\* C11: if any command an operation issued ended in failure after its
\* retries, the operation returns a non-nil error, unless the failure is
\* exit status 5 of thin-pool creation or an unmount failure whose output
\* contains "not mounted".
NoSilentSwallow ==
    \A c \in Callers : \A i \in DOMAIN res[c].calls :
        LET k == res[c].calls[i] IN
        k.err /= Nil /\ ~Expected(res[c].op, i, k) => res[c].err /= Nil
NoSilentSwallowWitness ==
    \E c \in Callers :
        /\ Returned(c, "createLVMVolume")
        /\ Len(res[c].calls) = 3
        /\ res[c].calls[3].spawns = retries
        /\ res[c].calls[3].err /= Nil
        /\ res[c].err = res[c].calls[3].err

\* C12: in createLVMVolume with no parent mkfs is never spawned unless
\* lvchange -a y has completed successfully; when the activation fails the
\* operation returns the error wrapped with "Unable to activate thin volume"
\* (not the create step's message) and mkfs is not invoked.
ActivateBeforeFormat ==
    \A c \in Callers :
        /\ (/\ Busy(c)
            /\ CurOp(c).name = "createLVMVolume"
            /\ \E cmd \in Spawned(c) : IsMkfs(cmd))
           => /\ Len(calls[c]) >= 2
              /\ IsActivate(calls[c][2])
              /\ calls[c][2].err = Nil
        /\ (/\ Returned(c, "createLVMVolume")
            /\ Len(res[c].calls) >= 2
            /\ res[c].calls[2].err /= Nil)
           => /\ IsActivate(res[c].calls[2])
              /\ res[c].err = <<"Unable to activate thin volume", ": ">>
                                \o res[c].calls[2].err
              /\ res[c].err[1] /= "Unable to create volume"
              /\ Len(res[c].calls) = 2
ActivateBeforeFormatWitness ==
    \E c \in Callers :
        /\ Returned(c, "createLVMVolume")
        /\ res[c].op.parent = ""
        /\ Len(res[c].calls) = 2
        /\ res[c].calls[2].err = <<"exit status ", "5">>
        /\ res[c].calls[2].spawns = retries

\* C13: in removeLVMVolume lvremove is never spawned before the
\* unmount/deactivate command for the same device has been attempted and has
\* finished (succeeded, or failed all its retries), and every call attempts
\* the unmount first.
UnmountBeforeRemove ==
    \A c \in Callers :
        /\ Busy(c) /\ CurOp(c).name = "removeLVMVolume" =>
              /\ (InRunCommand(c) /\ spawns[c] > 0 /\ Len(calls[c]) = 0)
                    => IsUnmount(Command(rev, CurOp(c), step[c]))
              /\ <<"lvremove">> \in Spawned(c) =>
                    /\ Len(calls[c]) >= 1
                    /\ IsUnmount(calls[c][1])
                    /\ calls[c][1].spawns >= 1
                    /\ calls[c][1].err = Nil \/ calls[c][1].spawns = retries
        /\ Returned(c, "removeLVMVolume") =>
              /\ IsUnmount(res[c].calls[1])
              /\ res[c].calls[1].spawns >= 1
              /\ \A i \in DOMAIN res[c].calls :
                    res[c].calls[i].cmd = <<"lvremove">> => i = 2
UnmountBeforeRemoveWitness ==
    \E c \in Callers :
        /\ Returned(c, "removeLVMVolume")
        /\ Len(res[c].calls) = 2
        /\ res[c].calls[1].spawns = retries
        /\ res[c].calls[2].cmd = <<"lvremove">>

Compensating(k) ==
    \/ k.cmd \in {<<"lvremove">>, <<"umount">>, <<"blkdeactivate">>,
                  <<"vgremove">>, <<"vgchange">>}
    \/ k.cmd = <<"lvchange">> /\ k.args[Len(k.args)] = <<"n">>

\* C14: when the activation or the format of createLVMVolume fails, or the
\* lvremove of removeLVMVolume fails, the operation issues no further
\* command (no lvremove, no deactivation) and returns the failure.
NoRollback ==
    \A c \in Callers :
        /\ Busy(c) /\ CurOp(c).name = "createLVMVolume" =>
              /\ \A k \in Records(c) : ~Compensating(k)
              /\ pc[c] /= "after" => \A k \in Records(c) : k.err = Nil
        /\ Busy(c) /\ CurOp(c).name = "removeLVMVolume" /\ pc[c] /= "after" =>
              \A k \in Records(c) : k.cmd /= <<"lvremove">>
        /\ Returned(c, "createLVMVolume") =>
              LET ks == res[c].calls IN
              /\ \A i \in DOMAIN ks : ~Compensating(ks[i])
              /\ \A i \in DOMAIN ks : ks[i].err /= Nil =>
                    i = Len(ks) /\ res[c].err /= Nil
        /\ Returned(c, "removeLVMVolume") =>
              LET ks == res[c].calls IN
              \A i \in DOMAIN ks : ks[i].cmd = <<"lvremove">> /\ ks[i].err /= Nil =>
                    i = Len(ks) /\ res[c].err = ks[i].err
NoRollbackWitness ==
    \E c \in Callers :
        /\ Returned(c, "createLVMVolume")
        /\ Len(res[c].calls) = 2
        /\ res[c].calls[1].err = Nil
        /\ res[c].calls[2].err = <<"exit status ", "1">>
        /\ res[c].err /= Nil
\* every caller that can take a step eventually takes one: the Go scheduler
\* runs every runnable goroutine, and every spawned process terminates
Step(c) ==
    \/ Call(c) \/ OpLock(c) \/ RcLock(c) \/ Spawn(c) \/ LoopExit(c)
    \/ Exit(c) \/ Sleep(c) \/ RcReturn(c) \/ NextStep(c) \/ OpReturn(c)
FairSpec == Init /\ [][Next]_vars /\ \A c \in Callers : WF_vars(Step(c))

\* C15: provided every spawned process terminates, every operation of every
\* caller's program eventually has returned, and a caller that is not
\* executing an operation holds no token: when nobody executes, the token is
\* free.
CompletionAndRelease ==
    /\ <>(\A c \in Callers : ~Busy(c) /\ ip[c] > Len(prog[c]))
    /\ [](\A c \in Callers : ~Busy(c) => mutex /= c /\ ~lock[c])
    /\ []((\A c \in Callers : ~Busy(c)) => mutex = Free)
CompletionWitness ==
    /\ rev = 2
    /\ Concurrent
    /\ \A c \in Callers : ~Busy(c) /\ ip[c] > Len(prog[c])
    /\ Returned("c1", "createLVMVolume") /\ Len(res["c1"].calls) = 3
    /\ Returned("c2", "removeLVMVolume") /\ Len(res["c2"].calls) = 2
    /\ mutex = Free
\* C16: from the first spawn of a runCommand invocation until it returns
\* (retries and the delays between them included) the caller holds the
\* token and no other caller spawns a command.
RetriesCovered ==
    [][\A c \in Callers : InRunCommand(c) /\ spawns[c] >= 1 =>
          /\ mutex = c
          /\ \A d \in Callers \ {c} : spawns'[d] <= spawns[d]]_vars

\* C17: a caller that is between the commands of an operation, or between
\* operations, holds no token that another caller contends on, so another
\* caller's command can run between the steps of a createLVMVolume call.
NoLockAcrossSteps ==
    \A c \in Callers :
        /\ ~InRunCommand(c) => mutex /= c
        /\ pc[c] = "op_lock" => ~lock[c]
InterleavedWitness ==
    /\ rev = 2
    /\ pc["c1"] \in {"after", "rc_lock"}
    /\ CurOp("c1").name = "createLVMVolume"
    /\ Len(calls["c1"]) = 1 /\ calls["c1"][1].err = Nil
    /\ pc["c2"] = "rc_run"
    /\ Command(rev, CurOp("c2"), step["c2"]).cmd = <<"lvremove">>

MkfsEntries ==
    {e \in UNION {{log[c][i] : i \in DOMAIN log[c]} : c \in Callers} : IsMkfs(e.cmd)}
Ext4Flags == << <<"-E">>, <<"nodiscard,lazy_itable_init=0,lazy_journal_init=0">> >>
Requested(f) ==
    \E c \in Callers : \E i \in DOMAIN prog[c] : prog[c][i].fstype = f

ExpectedStillRetried ==
    \A c \in Callers :
        /\ (/\ pc[c] = "rc_ret"
            /\ CurOp(c).name \in {"createLogicalThinPool", "removeLVMVolume"}
            /\ proc[c].err /= Nil)
           => /\ spawns[c] = retries
              /\ err[c] = proc[c].err
              /\ output[c] = proc[c].output
        /\ Returned(c, "createLogicalThinPool") =>
              LET k == res[c].calls[1] IN
              /\ k.last.err /= Nil => k.spawns = retries
              /\ res[c].err = Nil <=> k.last.err \in {Nil, <<"exit status ", "5">>}
        /\ Returned(c, "removeLVMVolume") =>
              LET k == res[c].calls[1] IN
              /\ k.last.err /= Nil => k.spawns = retries
              /\ Len(res[c].calls) = 2 <=>
                    \/ k.last.err = Nil
                    \/ rev = 1 /\ Contains(k.last.output, NotMounted)
ExpectedStillRetriedWitness ==
    \E c \in Callers :
        /\ pc[c] = "rc_ret"
        /\ CurOp(c).name = "createLogicalThinPool"
        /\ spawns[c] = retries
        /\ proc[c].first = <<"exit status ", "1">>
        /\ proc[c].err = <<"exit status ", "5">>
        /\ err[c] = <<"exit status ", "5">>
====
